---- MODULE Spec2Model ----
(***************************************************************************)
(* Model of scripts/convert_xpt.py (XPT -> CSV + JSON with a percentile    *)
(* report) and scripts/create_fpdf2_sample.py (one JSON record -> PDF).    *)
(*                                                                         *)
(* Numbers are fixed point: a cell holds an integer count of 10^-5 units   *)
(* (1.23456 is 123456), a value rounded to 4 decimals is a count of 10^-4  *)
(* units, a quantile is a count of 10^-8 units (cell unit / QDen).         *)
(***************************************************************************)
EXTENDS Integers, Sequences, FiniteSets, TLC

VARIABLES
    pc,          \* position of main() in convert_xpt.py
    summary,     \* args.summary
    fileExists,  \* Path(args.input).exists()
    dirExists,   \* whether args.out_dir exists on disk
    dirCreated,  \* whether this run created args.out_dir
    df,          \* main's table (NoDf before load_xpt returns)
    parsed,      \* the table the successful parser returned
    report,      \* percentile rows printed by show_reference_ranges
    csvFile,     \* content of <out-dir>/CBC_J.csv written by this run
    jsonFile,    \* content of <out-dir>/CBC_J.json written by this run
    trace,       \* library calls and prints of this run, in program order
    exitCode,    \* "none" while running, then "0" or "1"
    column,      \* df[var] of one loop iteration of show_reference_ranges
    qrow,        \* the rows that iteration printed (none or one)
    qpc,         \* position of that iteration
    data,          \* create_fpdf2_sample.py: the array json.load returned
    sample_record, \* <<>> for None, else <<the selected record>>
    tests,         \* the rows of the template formatted so far
    ppc,           \* position of create_fpdf2_sample.py
    perror,        \* the exception that ended the script, "none" if none
    pexit,         \* its exit code, "none" while running
    pdfWritten     \* whether pdf.output wrote the report

convVars == <<pc, summary, fileExists, dirExists, dirCreated, df, parsed,
              report, csvFile, jsonFile, trace, exitCode>>
quantVars == <<column, qrow, qpc>>
pdfVars == <<data, sample_record, tests, ppc, perror, pexit, pdfWritten>>
vars == <<convVars, quantVars, pdfVars>>

----------------------------------------------------------------------------
(* Bounds of the model *)

MaxRows == 2
MaxCols == 2
MaxLen == 5
MaxRecords == 2
MaxNull == 2
MaxAbsent == 1

\* column names a modelled input file may carry: one unmapped, two mapped
ColNames == {"SEQN", "LBXHGB", "LBXNRBC"}

----------------------------------------------------------------------------
(* Cells and tables *)

NaN == <<"NaN">>
Num(v) == <<"num", v>>
IsNa(c) == c[1] = "NaN"
Val(c) == c[2]

\* 1.23456: a value that rounding to 4 decimals changes
TableCells == {NaN, Num(123456)}

NoDf == [cols |-> <<>>, rows |-> <<>>, loaded |-> FALSE]
NoFile == [written |-> FALSE, data |-> <<>>]
File(d) == [written |-> TRUE, data |-> d]

Injective(s) == \A i, j \in 1..Len(s) : s[i] = s[j] => i = j

SeqsUpTo(S, n) == UNION {[1..k -> S] : k \in 0..n}

ColSeqs == {s \in SeqsUpTo(ColNames, MaxCols) : Injective(s)}

\* every table a parser may return: unique column names, rectangular rows
Tables ==
    UNION {{[cols |-> c, rows |-> r, loaded |-> TRUE] :
              r \in SeqsUpTo([1..Len(c) -> TableCells], MaxRows)} : c \in ColSeqs}

ColIndex(t, name) == CHOOSE j \in 1..Len(t.cols) : t.cols[j] = name
HasCol(t, name) == \E j \in 1..Len(t.cols) : t.cols[j] = name
\* df[name]: the column as a sequence of cells in row order
Column(t, name) == [i \in 1..Len(t.rows) |-> t.rows[i][ColIndex(t, name)]]

----------------------------------------------------------------------------
(* show_reference_ranges: the mapping, dropna, quantile *)

\* nhanes_to_name, in insertion order (dict iteration order)
NhanesToName ==
    << <<"LBXWBCSI", "WBC (10^3/mcL)">>,
       <<"LBXRBCSI", "RBC (M/mcL)">>,
       <<"LBXHGB", "Hemoglobin (g/dL)">>,
       <<"LBXHCT", "Hematocrit (%)">>,
       <<"LBXMCVSI", "MCV (fL)">>,
       <<"LBXMC", "MCH (pg)">>,
       <<"LBXMCHSI", "MCHC (g/dL)">>,
       <<"LBXRDW", "RDW (%)">>,
       <<"LBXPLTSI", "Platelets (10^3/mcL)">>,
       <<"LBXMPSI", "MPV (fL)">>,
       <<"LBXNRBC", "NRBC (/100 WBC)">> >>

\* the quantiles 0.025, 0.25, 0.50, 0.75, 0.975 as thousandths
QDen == 1000
Q025 == 25
Q25 == 250
Q50 == 500
Q75 == 750
Q975 == 975

NotNa(c) == ~IsNa(c)
\* Series.dropna(): a new series holding the non-missing cells, in order
DropNa(col) == SelectSeq(col, NotNa)

Values(col) == [i \in 1..Len(col) |-> Val(col[i])]

Insert(x, s) ==
    LET p == Cardinality({i \in 1..Len(s) : s[i] <= x})
    IN  SubSeq(s, 1, p) \o <<x>> \o SubSeq(s, p + 1, Len(s))

RECURSIVE SortAsc(_)
SortAsc(s) == IF s = <<>> THEN <<>> ELSE Insert(Head(s), SortAsc(Tail(s)))

\* mutant: interpolation "lower", the order statistic at floor((n-1)*q)
QuantileLower(vals, q) ==
    LET v == SortAsc(vals)
        prev == (q * (Len(v) - 1)) \div QDen
    IN  v[prev + 1] * QDen

\* mutant: the values are indexed in row order, not in ascending order
QuantileUnsorted(vals, q) ==
    LET n == Len(vals)
        pos == q * (n - 1)
        prev == pos \div QDen
        gamma == pos % QDen
        next == IF prev + 1 > n - 1 THEN n - 1 ELSE prev + 1
    IN  vals[prev + 1] * QDen + gamma * (vals[next + 1] - vals[prev + 1])

\* Series.quantile(q), interpolation "linear": virtual index (n-1)*q into the
\* ascending values, previous = floor, next = previous + 1 clipped to n-1,
\* result previous + gamma * (next - previous). Result in cell units / QDen.
Quantile(vals, q) ==
    LET v == SortAsc(vals)
        n == Len(v)
        pos == q * (n - 1)
        prev == pos \div QDen
        gamma == pos % QDen
        next == IF prev + 1 > n - 1 THEN n - 1 ELSE prev + 1
    IN  v[prev + 1] * QDen + gamma * (v[next + 1] - v[prev + 1])

\* body of the loop for one mapped variable found in df.columns: no row when
\* nothing is left after dropna, else the one printed row
PercentileRow(name, series) ==
    LET col == DropNa(series)
    IN  IF Len(col) = 0
        THEN <<>>
        ELSE << [label |-> name,
                 p025 |-> Quantile(Values(col), Q025),
                 p25 |-> Quantile(Values(col), Q25),
                 p50 |-> Quantile(Values(col), Q50),
                 p75 |-> Quantile(Values(col), Q75),
                 p975 |-> Quantile(Values(col), Q975)] >>

\* mutant: break instead of continue, a skipped variable ends the loop
RECURSIVE RangeRowsBreak(_, _)
RangeRowsBreak(t, k) ==
    IF k > Len(NhanesToName)
    THEN <<>>
    ELSE IF ~HasCol(t, NhanesToName[k][1])
         THEN <<>>
         ELSE PercentileRow(NhanesToName[k][2], Column(t, NhanesToName[k][1]))
                  \o RangeRowsBreak(t, k + 1)

\* the loop over nhanes_to_name.items() from entry k on
RECURSIVE RangeRows(_, _)
RangeRows(t, k) ==
    IF k > Len(NhanesToName)
    THEN <<>>
    ELSE IF ~HasCol(t, NhanesToName[k][1])
         THEN RangeRows(t, k + 1)
         ELSE PercentileRow(NhanesToName[k][2], Column(t, NhanesToName[k][1]))
                  \o RangeRows(t, k + 1)

----------------------------------------------------------------------------
(* save_outputs: to_csv, round, to_json *)

\* round to 4 decimals (half to even): cell units -> 10^-4 units
Round4(v) ==
    LET q == v \div 10
        r == v % 10
    IN  IF r > 5 \/ (r = 5 /\ q % 2 = 1) THEN q + 1 ELSE q

EmptyField == <<"">>
FloatField(r) == <<"%.4f", r>>
\* to_csv: a missing cell is the empty field, a float is printed "%.4f"
CsvField(c) == IF IsNa(c) THEN EmptyField ELSE FloatField(Round4(Val(c)))

\* mutant: the rows with a missing cell are dropped before writing
ToCsvDropNa(t) ==
    LET Full(r) == \A j \in 1..Len(r) : ~IsNa(r[j])
        kept == SelectSeq(t.rows, Full)
    IN  [header |-> t.cols,
         lines |-> [i \in 1..Len(kept) |->
                      [j \in 1..Len(t.cols) |-> CsvField(kept[i][j])]]]

\* df.to_csv(index=False, float_format="%.4f"): header, then a record per row
ToCsv(t) ==
    [header |-> t.cols,
     lines |-> [i \in 1..Len(t.rows) |->
                  [j \in 1..Len(t.cols) |-> CsvField(t.rows[i][j])]]]

\* df.round(4): a new table, every float rounded to 4 decimals
DfRound(t) ==
    [t EXCEPT !.rows =
        [i \in 1..Len(t.rows) |->
           [j \in 1..Len(t.cols) |->
              IF IsNa(t.rows[i][j]) THEN NaN
              ELSE Num(Round4(Val(t.rows[i][j])) * 10)]]]

JsonNull == <<"null">>
JsonNum(v) == <<"number", v>>
JsonCell(c) == IF IsNa(c) THEN JsonNull ELSE JsonNum(Val(c))

\* to_json(orient="records"): an array with one object per row, keyed by
\* column name, NaN written as null
ToJson(t) ==
    [i \in 1..Len(t.rows) |->
       [name \in {t.cols[j] : j \in 1..Len(t.cols)} |->
          JsonCell(t.rows[i][ColIndex(t, name)])]]

----------------------------------------------------------------------------
(* convert_xpt.py: main and load_xpt, one action per statement that calls   *)
(* a library, prints or exits                                               *)

Emit(events) == trace' = trace \o events
Exit(code) == /\ exitCode' = code
              /\ pc' = "exited"

\* the variables of a script that is not run
QuantIdle == column = <<>> /\ qrow = <<>> /\ qpc = "idle"
PdfIdle ==
    /\ data = <<>>
    /\ sample_record = <<>>
    /\ tests = <<>>
    /\ ppc = "idle"
    /\ perror = "none"
    /\ pexit = "none"
    /\ pdfWritten = FALSE
ConvIdle ==
    /\ pc = "idle"
    /\ summary = FALSE
    /\ fileExists = FALSE
    /\ dirExists = FALSE
    /\ dirCreated = FALSE
    /\ df = NoDf
    /\ parsed = NoDf
    /\ report = <<>>
    /\ csvFile = NoFile
    /\ jsonFile = NoFile
    /\ trace = <<>>
    /\ exitCode = "none"

Init ==
    /\ pc = "main"
    /\ summary \in BOOLEAN
    /\ fileExists \in BOOLEAN
    /\ dirExists \in BOOLEAN
    /\ dirCreated = FALSE
    /\ df = NoDf
    /\ parsed = NoDf
    /\ report = <<>>
    /\ csvFile = NoFile
    /\ jsonFile = NoFile
    /\ trace = <<>>
    /\ exitCode = "none"
    /\ QuantIdle
    /\ PdfIdle

\* main: print "Converting", call load_xpt
MainStart ==
    /\ pc = "main"
    /\ Emit(<<"print:converting">>)
    /\ pc' = "load_xpt"
    /\ UNCHANGED <<pdfVars, quantVars, summary, fileExists, dirExists, dirCreated, df, parsed, report,
                   csvFile, jsonFile, exitCode>>

\* mutant: the not-found branch prints and then falls through to Method 1
LoadNotFoundNoExit ==
    /\ pc = "load_xpt"
    /\ ~fileExists
    /\ Emit(<<"stderr:file_not_found", "stderr:download_from",
              "call:read_sas", "print:pandas_failed">>)
    /\ pc' = "pyreadstat"
    /\ UNCHANGED <<pdfVars, quantVars, summary, fileExists, dirExists, dirCreated, df,
                   parsed, report, csvFile, jsonFile, exitCode>>

\* load_xpt: if not path.exists(): two prints to stderr, sys.exit(1)
LoadNotFound ==
    /\ pc = "load_xpt"
    /\ ~fileExists
    /\ Emit(<<"stderr:file_not_found", "stderr:download_from">>)
    /\ Exit("1")
    /\ UNCHANGED <<pdfVars, quantVars, summary, fileExists, dirExists, dirCreated, df, parsed, report,
                   csvFile, jsonFile>>

\* mutant: Method 1 succeeds but does not return, so Method 2 runs as well
ReadSasOkNoReturn ==
    /\ pc = "load_xpt"
    /\ fileExists
    /\ \E t \in Tables :
         /\ parsed' = t
         /\ df' = t
    /\ Emit(<<"call:read_sas", "print:loaded_pandas">>)
    /\ pc' = "pyreadstat"
    /\ UNCHANGED <<pdfVars, quantVars, summary, fileExists, dirExists, dirCreated,
                   report, csvFile, jsonFile, exitCode>>

\* Method 1: pd.read_sas returns a table (print, return df) ...
ReadSasOk ==
    /\ pc = "load_xpt"
    /\ fileExists
    /\ \E t \in Tables :
         /\ parsed' = t
         /\ df' = t
    /\ Emit(<<"call:read_sas", "print:loaded_pandas">>)
    /\ pc' = "loaded"
    /\ UNCHANGED <<pdfVars, quantVars, summary, fileExists, dirExists, dirCreated, report, csvFile, jsonFile,
                   exitCode>>

\* ... or raises an Exception (print the warning, fall through to Method 2)
ReadSasFails ==
    /\ pc = "load_xpt"
    /\ fileExists
    /\ Emit(<<"call:read_sas", "print:pandas_failed">>)
    /\ pc' = "pyreadstat"
    /\ UNCHANGED <<pdfVars, quantVars, summary, fileExists, dirExists, dirCreated, df, parsed, report,
                   csvFile, jsonFile, exitCode>>

\* Method 2: import pyreadstat raises ImportError
ImportFails ==
    /\ pc = "pyreadstat"
    /\ Emit(<<"import:pyreadstat", "stderr:pyreadstat_not_installed">>)
    /\ Exit("1")
    /\ UNCHANGED <<pdfVars, quantVars, summary, fileExists, dirExists, dirCreated, df, parsed, report,
                   csvFile, jsonFile>>

\* Method 2: pyreadstat.read_xpt returns a table (two prints, return df)
ReadXptOk ==
    /\ pc = "pyreadstat"
    /\ \E t \in Tables :
         /\ parsed' = t
         /\ df' = t
    /\ Emit(<<"import:pyreadstat", "call:read_xpt", "print:loaded_pyreadstat",
              "print:variable_labels">>)
    /\ pc' = "loaded"
    /\ UNCHANGED <<pdfVars, quantVars, summary, fileExists, dirExists, dirCreated, report, csvFile, jsonFile,
                   exitCode>>

\* Method 2: pyreadstat.read_xpt raises; an ImportError raised inside the
\* call is caught by the first handler, anything else by the second
ReadXptFails ==
    /\ pc = "pyreadstat"
    /\ \E msg \in {"stderr:pyreadstat_not_installed",
                   "stderr:pyreadstat_also_failed"} :
         Emit(<<"import:pyreadstat", "call:read_xpt", msg>>)
    /\ Exit("1")
    /\ UNCHANGED <<pdfVars, quantVars, summary, fileExists, dirExists, dirCreated, df, parsed, report,
                   csvFile, jsonFile>>

\* main: if args.summary: print_column_summary(df)
PrintColumnSummary ==
    /\ pc = "loaded"
    /\ summary
    /\ Emit(<<"print:column_summary">>)
    /\ pc' = "report"
    /\ UNCHANGED <<pdfVars, quantVars, summary, fileExists, dirExists, dirCreated, df, parsed, report,
                   csvFile, jsonFile, exitCode>>

\* mutant: the percentile report is printed only under --summary
ShowReferenceRangesOnlySummary ==
    /\ \/ pc = "report"
       \/ pc = "loaded" /\ ~summary
    /\ IF pc = "report"
       THEN report' = RangeRows(df, 1) /\ Emit(<<"print:percentiles">>)
       ELSE UNCHANGED <<report, trace>>
    /\ pc' = "save_outputs"
    /\ UNCHANGED <<pdfVars, quantVars, summary, fileExists, dirExists, dirCreated, df,
                   parsed, csvFile, jsonFile, exitCode>>

\* main: show_reference_ranges(df), in either branch of the if
ShowReferenceRanges ==
    /\ \/ pc = "report"
       \/ pc = "loaded" /\ ~summary
    /\ report' = RangeRows(df, 1)
    /\ Emit(<<"print:percentiles">>)
    /\ pc' = "save_outputs"
    /\ UNCHANGED <<pdfVars, quantVars, summary, fileExists, dirExists, dirCreated, df, parsed, csvFile,
                   jsonFile, exitCode>>

\* save_outputs: out_path.mkdir(parents=True, exist_ok=True)
Mkdir ==
    /\ pc = "save_outputs"
    /\ dirExists' = TRUE
    /\ dirCreated' = ~dirExists
    /\ Emit(<<"call:mkdir">>)
    /\ pc' = "to_csv"
    /\ UNCHANGED <<pdfVars, quantVars, summary, fileExists, df, parsed, report, csvFile, jsonFile,
                   exitCode>>

\* save_outputs: df.to_csv(...), print
SaveCsv ==
    /\ pc = "to_csv"
    /\ csvFile' = File(ToCsv(df))
    /\ Emit(<<"call:to_csv", "print:csv_saved">>)
    /\ pc' = "to_json"
    /\ UNCHANGED <<pdfVars, quantVars, summary, fileExists, dirExists, dirCreated, df, parsed, report,
                   jsonFile, exitCode>>

\* mutant: the rounding is done in place (df = df.round(4))
SaveJsonInPlace ==
    /\ pc = "to_json"
    /\ df' = DfRound(df)
    /\ jsonFile' = File(ToJson(DfRound(df)))
    /\ Emit(<<"call:to_json", "print:json_saved">>)
    /\ pc' = "complete"
    /\ UNCHANGED <<pdfVars, quantVars, summary, fileExists, dirExists, dirCreated,
                   parsed, report, csvFile, exitCode>>

\* save_outputs: df_rounded = df.round(4); df_rounded.to_json(...), print
SaveJson ==
    /\ pc = "to_json"
    /\ jsonFile' = File(ToJson(DfRound(df)))
    /\ Emit(<<"call:to_json", "print:json_saved">>)
    /\ pc' = "complete"
    /\ UNCHANGED <<pdfVars, quantVars, summary, fileExists, dirExists, dirCreated, df, parsed, report,
                   csvFile, exitCode>>

\* mutant: a failed write is caught and the run goes on to the next step
WriteFailsSwallowed ==
    /\ pc \in {"save_outputs", "to_csv", "to_json"}
    /\ Emit(<<"call:" \o (IF pc = "save_outputs" THEN "mkdir" ELSE pc)>>)
    /\ pc' = (IF pc = "save_outputs" THEN "to_csv"
              ELSE IF pc = "to_csv" THEN "to_json" ELSE "complete")
    /\ UNCHANGED <<pdfVars, quantVars, summary, fileExists, dirExists, dirCreated, df,
                   parsed, report, csvFile, jsonFile, exitCode>>

\* an OSError of mkdir, to_csv or to_json is caught nowhere: traceback, exit 1
WriteFails ==
    /\ pc \in {"save_outputs", "to_csv", "to_json"}
    /\ Emit(<<"call:" \o (IF pc = "save_outputs" THEN "mkdir" ELSE pc),
              "stderr:traceback">>)
    /\ Exit("1")
    /\ UNCHANGED <<pdfVars, quantVars, summary, fileExists, dirExists, dirCreated, df, parsed, report,
                   csvFile, jsonFile>>

\* main: print "Conversion complete", return: the interpreter exits with 0
Complete ==
    /\ pc = "complete"
    /\ Emit(<<"print:conversion_complete">>)
    /\ Exit("0")
    /\ UNCHANGED <<pdfVars, quantVars, summary, fileExists, dirExists, dirCreated, df, parsed, report,
                   csvFile, jsonFile>>

Next ==
    \/ MainStart
    \/ LoadNotFound
    \/ ReadSasOk
    \/ ReadSasFails
    \/ ImportFails
    \/ ReadXptOk
    \/ ReadXptFails
    \/ PrintColumnSummary
    \/ ShowReferenceRanges
    \/ Mkdir
    \/ SaveCsv
    \/ SaveJson
    \/ WriteFails
    \/ Complete

Spec == Init /\ [][Next]_vars

----------------------------------------------------------------------------
(* One iteration of the loop of show_reference_ranges on a longer column    *)

\* 12.0, 13.0, 14.0, 15.0, 16.0 and a missing value
SeriesCells == {NaN} \cup {Num(v * 100000) : v \in 12..16}

InitQuantile ==
    /\ ConvIdle
    /\ PdfIdle
    /\ column \in SeqsUpTo(SeriesCells, MaxLen)
    /\ qrow = <<>>
    /\ qpc = "dropna"

\* col = df[var].dropna(); if len(col) == 0: continue
SkipColumn ==
    /\ qpc = "dropna"
    /\ Len(DropNa(column)) = 0
    /\ qrow' = PercentileRow("Hemoglobin (g/dL)", column)
    /\ qpc' = "skipped"
    /\ UNCHANGED <<convVars, pdfVars, column>>

\* col = df[var].dropna(); p = col.quantile([...]); print the row
PrintRow ==
    /\ qpc = "dropna"
    /\ Len(DropNa(column)) # 0
    /\ qrow' = PercentileRow("Hemoglobin (g/dL)", column)
    /\ qpc' = "printed"
    /\ UNCHANGED <<convVars, pdfVars, column>>

NextQuantile ==
    \/ SkipColumn
    \/ PrintRow

SpecQuantile == InitQuantile /\ [][NextQuantile]_vars

----------------------------------------------------------------------------
(* Properties of convert_xpt.py, checked under Spec                        *)

Has(e) == \E i \in 1..Len(trace) : trace[i] = e
Count(e) == Cardinality({i \in 1..Len(trace) : trace[i] = e})
Pos(e) == CHOOSE i \in 1..Len(trace) :
              trace[i] = e /\ \A j \in 1..(i - 1) : trace[j] # e
Before(a, b) == Has(a) /\ Has(b) /\ Pos(a) < Pos(b)

ParserCalled == Has("call:read_sas") \/ Has("call:read_xpt")
NothingWritten == /\ ~dirCreated
                  /\ ~Has("call:mkdir")
                  /\ ~csvFile.written
                  /\ ~jsonFile.written

\* C1: when the input path does not exist, once load_xpt has run the process
\* has exited with code 1, having printed exactly the not-found message and
\* then the download hint after main's banner; no parser was called, no
\* percentile report was printed, no directory or file was created.
C1_MissingInputExits ==
    (~fileExists /\ pc \notin {"main", "load_xpt"}) =>
        /\ pc = "exited"
        /\ exitCode = "1"
        /\ trace = <<"print:converting", "stderr:file_not_found",
                     "stderr:download_from">>
        /\ ~ParserCalled
        /\ ~Has("import:pyreadstat")
        /\ ~Has("print:percentiles")
        /\ report = <<>>
        /\ NothingWritten

C1_Witness == ~fileExists /\ pc = "exited" /\ Has("stderr:download_from")

\* C2: each parser is called at most once; read_xpt is called only after
\* read_sas was called and failed; when read_sas succeeds its table is the
\* one main receives and pyreadstat is neither imported nor called; the
\* "pyreadstat also failed" exit with code 1 comes only after read_sas failed
\* and then read_xpt was called.
C2_FallbackOrder ==
    /\ Count("call:read_sas") <= 1
    /\ Count("call:read_xpt") <= 1
    /\ Has("call:read_xpt") =>
          /\ Before("call:read_sas", "print:pandas_failed")
          /\ Before("print:pandas_failed", "call:read_xpt")
          /\ ~Has("print:loaded_pandas")
    /\ Has("print:loaded_pandas") =>
          /\ ~Has("call:read_xpt")
          /\ ~Has("import:pyreadstat")
          /\ df.loaded
          /\ df = parsed
    /\ Has("stderr:pyreadstat_also_failed") =>
          /\ exitCode = "1"
          /\ ~df.loaded
          /\ Before("print:pandas_failed", "call:read_xpt")
          /\ Before("call:read_xpt", "stderr:pyreadstat_also_failed")

C2_Witness ==
    /\ exitCode = "1"
    /\ Has("stderr:pyreadstat_also_failed")
    /\ Count("call:read_sas") = 1
    /\ Count("call:read_xpt") = 1

LoadEvent == IF Has("print:loaded_pandas") THEN "print:loaded_pandas"
             ELSE "print:loaded_pyreadstat"

NotSummaryEvent(e) == e # "print:column_summary"
SaveEvents == <<"print:percentiles", "call:mkdir", "call:to_csv",
                "print:csv_saved", "call:to_json", "print:json_saved",
                "print:conversion_complete">>
\* the two complete runs, the column inventory left out
CompleteRuns ==
    {<<"print:converting", "call:read_sas", "print:loaded_pandas">>
         \o SaveEvents,
     <<"print:converting", "call:read_sas", "print:pandas_failed",
       "import:pyreadstat", "call:read_xpt", "print:loaded_pyreadstat",
       "print:variable_labels">> \o SaveEvents}

LoadFailed == \/ Has("stderr:file_not_found")
              \/ Has("stderr:pyreadstat_not_installed")
              \/ Has("stderr:pyreadstat_also_failed")

\* C4: exit code 0 implies both files were written in this run; a failure of
\* any stage ends the run with exit code 1; when loading fails (input
\* missing, pyreadstat not installed, or both parsers failed) the run ends
\* with exit code 1 without entering save_outputs: no directory created, no
\* file written.
C4_FailureAborts ==
    /\ exitCode = "0" => csvFile.written /\ jsonFile.written
    /\ (LoadFailed \/ Has("stderr:traceback")) =>
          pc = "exited" /\ exitCode = "1"
    /\ LoadFailed => NothingWritten /\ ~df.loaded
    /\ (pc = "exited" /\ ~df.loaded) => LoadFailed

C4_Witness ==
    /\ pc = "exited"
    /\ exitCode = "1"
    /\ Has("stderr:pyreadstat_not_installed")

AllMissing(t, name) == \A i \in 1..Len(t.rows) : IsNa(t.rows[i][ColIndex(t, name)])

\* C5: the CSV written for table df has one header and exactly one record
\* per row of df, the JSON array exactly one element per row of df, and the
\* i-th record and the i-th element carry the cells of the i-th row of df
\* (a missing cell as the empty field / null, a number rounded to 4
\* decimals), also when df has no rows.
C5_RowsPreserved ==
    /\ csvFile.written =>
          /\ Len(csvFile.data.lines) = Len(df.rows)
          /\ \A i \in 1..Len(df.rows) :
                /\ Len(csvFile.data.lines[i]) = Len(df.cols)
                /\ \A j \in 1..Len(df.cols) :
                      IF IsNa(df.rows[i][j])
                      THEN csvFile.data.lines[i][j] = EmptyField
                      ELSE csvFile.data.lines[i][j]
                               = FloatField(Round4(Val(df.rows[i][j])))
    /\ jsonFile.written =>
          /\ Len(jsonFile.data) = Len(df.rows)
          /\ \A i \in 1..Len(df.rows) : \A j \in 1..Len(df.cols) :
                IF IsNa(df.rows[i][j])
                THEN jsonFile.data[i][df.cols[j]] = JsonNull
                ELSE jsonFile.data[i][df.cols[j]]
                         = JsonNum(10 * Round4(Val(df.rows[i][j])))

C5_Witness ==
    /\ csvFile.written
    /\ jsonFile.written
    /\ Len(df.rows) = 2
    /\ df.rows[1] # df.rows[2]

\* the order the claim lists
C6_Order == <<"LBXWBCSI", "LBXRBCSI", "LBXHGB", "LBXHCT", "LBXMCVSI", "LBXMC",
              "LBXMCHSI", "LBXRDW", "LBXPLTSI", "LBXMPSI", "LBXNRBC">>
C6_Label(var) ==
    LET k == CHOOSE k \in 1..Len(NhanesToName) : NhanesToName[k][1] = var
    IN  NhanesToName[k][2]
\* the place in the claim's order of the variable a printed label stands for
C6_Place(label) ==
    CHOOSE k \in 1..Len(C6_Order) : C6_Label(C6_Order[k]) = label
C6_Reportable(var) ==
    /\ HasCol(df, var)
    /\ \E i \in 1..Len(df.rows) : ~IsNa(df.rows[i][ColIndex(df, var)])
C6_RowsOf(var) == {i \in 1..Len(report) : report[i].label = C6_Label(var)}

\* C6: after show_reference_ranges, the report holds exactly one row for
\* every mapped variable that is a column of df with a non-missing value, no
\* row for any other mapped variable, no other row, and the rows are in the
\* order of the mapping; a skipped variable does not stop later ones.
C6_ReportRows ==
    Has("print:percentiles") =>
        /\ \A k \in 1..Len(C6_Order) :
              Cardinality(C6_RowsOf(C6_Order[k]))
                  = (IF C6_Reportable(C6_Order[k]) THEN 1 ELSE 0)
        /\ Len(report)
              = Cardinality({k \in 1..Len(C6_Order) : C6_Reportable(C6_Order[k])})
        /\ \A i1, i2 \in 1..Len(report) :
              i1 < i2 => C6_Place(report[i1].label) < C6_Place(report[i2].label)
        /\ exitCode \in {"none", "0"} \/ Has("stderr:traceback")

\* LBXHGB is a column with every value missing, LBXNRBC, later in the
\* mapping and earlier in the table, is reported
C6_Witness ==
    /\ Has("print:percentiles")
    /\ df.cols = <<"LBXNRBC", "LBXHGB">>
    /\ Len(df.rows) = 2
    /\ AllMissing(df, "LBXHGB")
    /\ Len(report) = 1
    /\ report[1].label = "NRBC (/100 WBC)"

\* C7: from load on main's table is the table the parser returned (no
\* stage changes a column name, the column order, the row count or a cell);
\* the CSV header and every JSON object carry exactly the loaded columns,
\* and a column whose values are all missing, which the report skipped, has
\* the empty field in every CSV record and null in every JSON object.
C7_TableReadOnly ==
    /\ df.loaded => df = parsed
    /\ csvFile.written =>
          /\ csvFile.data.header = parsed.cols
          /\ \A j \in 1..Len(parsed.cols) :
                AllMissing(parsed, parsed.cols[j]) =>
                    /\ (\E k \in 1..Len(C6_Order) : C6_Order[k] = parsed.cols[j])
                           => C6_RowsOf(parsed.cols[j]) = {}
                    /\ \A i \in 1..Len(parsed.rows) :
                          csvFile.data.lines[i][j] = EmptyField
    /\ jsonFile.written =>
          \A i \in 1..Len(jsonFile.data) :
              /\ DOMAIN jsonFile.data[i]
                     = {parsed.cols[j] : j \in 1..Len(parsed.cols)}
              /\ \A j \in 1..Len(parsed.cols) :
                    AllMissing(parsed, parsed.cols[j]) =>
                        jsonFile.data[i][parsed.cols[j]] = JsonNull

\* one row, LBXNRBC missing in it: not reported, exported as empty / null
C7_Witness ==
    /\ jsonFile.written
    /\ Len(parsed.rows) = 1
    /\ HasCol(parsed, "LBXNRBC")
    /\ AllMissing(parsed, "LBXNRBC")
    /\ \A r \in 1..Len(report) : report[r].label # "NRBC (/100 WBC)"
    /\ jsonFile.data[1]["LBXNRBC"] = JsonNull

----------------------------------------------------------------------------
(* Properties of the percentile computation, checked under SpecQuantile    *)

\* the non-missing values of the column under report, by position
C8_Present == {i \in 1..Len(column) : ~IsNa(column[i])}
C8_N == Cardinality(C8_Present)
\* v[k], 0-based, of the non-missing values sorted ascending: the value with
\* at most k values strictly below it and more than k values not above it
C8_V(k) ==
    CHOOSE x \in {Val(column[i]) : i \in C8_Present} :
        /\ Cardinality({i \in C8_Present : Val(column[i]) < x}) <= k
        /\ Cardinality({i \in C8_Present : Val(column[i]) <= x}) > k
\* v[floor(h)] + (h - floor(h)) * (v[ceil(h)] - v[floor(h)]), h = q*(n-1),
\* with q in thousandths and the result in cell units / 1000
C8_Interpolated(q) ==
    LET h1000 == q * (C8_N - 1)
        floor == h1000 \div 1000
        ceil == (h1000 + 999) \div 1000
    IN  1000 * C8_V(floor) + (h1000 - 1000 * floor) * (C8_V(ceil) - C8_V(floor))

C8_Example == <<Num(1200000), Num(1300000), Num(1400000), Num(1500000),
                Num(1600000)>>

\* C8: each of the five quantiles of a reported column is the linear
\* interpolation between the order statistics of its n non-missing values at
\* h = q*(n-1); for n = 1 all five are the single value; for
\* [12, 13, 14, 15, 16] p25 = 13, median = 14 and p75 = 15.
C8_LinearInterpolation ==
    qpc = "printed" =>
        /\ Len(qrow) = 1
        /\ qrow[1].p025 = C8_Interpolated(25)
        /\ qrow[1].p25 = C8_Interpolated(250)
        /\ qrow[1].p50 = C8_Interpolated(500)
        /\ qrow[1].p75 = C8_Interpolated(750)
        /\ qrow[1].p975 = C8_Interpolated(975)
        /\ C8_N = 1 =>
              \A i \in C8_Present :
                  /\ qrow[1].p025 = 1000 * Val(column[i])
                  /\ qrow[1].p25 = 1000 * Val(column[i])
                  /\ qrow[1].p50 = 1000 * Val(column[i])
                  /\ qrow[1].p75 = 1000 * Val(column[i])
                  /\ qrow[1].p975 = 1000 * Val(column[i])
        /\ column = C8_Example =>
              /\ qrow[1].p25 = 1300000000
              /\ qrow[1].p50 = 1400000000
              /\ qrow[1].p75 = 1500000000

C8_Witness ==
    /\ qpc = "printed"
    /\ column = C8_Example
    /\ qrow[1].p25 = 1300000000
    /\ qrow[1].p025 = 1210000000

\* C9: the five quantiles of a reported column are in ascending order and
\* each lies between the least and the greatest non-missing value.
C9_Monotonic ==
    qpc = "printed" =>
        /\ qrow[1].p025 <= qrow[1].p25
        /\ qrow[1].p25 <= qrow[1].p50
        /\ qrow[1].p50 <= qrow[1].p75
        /\ qrow[1].p75 <= qrow[1].p975
        /\ \A p \in {qrow[1].p025, qrow[1].p25, qrow[1].p50, qrow[1].p75,
                     qrow[1].p975} :
              /\ \E i \in C8_Present : 1000 * Val(column[i]) <= p
              /\ \E i \in C8_Present : p <= 1000 * Val(column[i])
              /\ \A i \in C8_Present :
                    (\A j \in C8_Present : Val(column[i]) <= Val(column[j]))
                        => 1000 * Val(column[i]) <= p
              /\ \A i \in C8_Present :
                    (\A j \in C8_Present : Val(column[j]) <= Val(column[i]))
                        => p <= 1000 * Val(column[i])

\* an unsorted column with a missing value in it and distinct quantiles
C9_Witness ==
    /\ qpc = "printed"
    /\ column = <<Num(1600000), NaN, Num(1200000), Num(1400000)>>
    /\ qrow[1].p025 < qrow[1].p25
    /\ qrow[1].p75 < qrow[1].p975

----------------------------------------------------------------------------
(* create_fpdf2_sample.py                                                  *)

\* the columns of CBC_J the script reads
PdfKeys == {"SEQN", "LBXHGB", "LBXWBCSI", "LBXPLTSI", "LBXRBCSI", "LBXHCT",
            "LBXMCVSI", "LBXMC", "LBXMCHSI", "LBXRDW", "LBXNEPCT", "LBXLYPCT",
            "LBXMOPCT", "LBXEOPCT", "LBXBAPCT", "LBDNENO", "LBDLYMNO"}

\* an array to_json(orient="records") can have written: every object has the
\* same keys, a missing cell is null, SEQN numbers the rows
ExportedArray(n, keys, nulls) ==
    [i \in 1..n |->
       [k \in keys |->
          IF <<i, k>> \in nulls THEN JsonNull
          ELSE IF k = "SEQN" THEN JsonNum(i * 100000)
          ELSE JsonNum(1400000)]]
KeySets ==
    {PdfKeys \ a : a \in {b \in {{}} \cup {{k} : k \in PdfKeys} :
                             Cardinality(b) <= MaxAbsent}}

None == <<"None">>
\* record.get(key) and record.get(key, default)
Get(rec, key, default) == IF key \in DOMAIN rec THEN rec[key] ELSE default
\* record[key]
Index(rec, key) == IF key \in DOMAIN rec THEN rec[key] ELSE <<"KeyError">>
\* truth value of a looked-up cell: None (JSON null) and 0.0 are false
Truthy(x) == x[1] = "number" /\ x[2] # 0

\* f"{x:.<d>f}": x rounded (half to even) to d decimals; TypeError for None
RoundDec(v, d) ==
    LET m == IF d = 0 THEN 100000 ELSE IF d = 1 THEN 10000 ELSE 1000
        q == v \div m
        r == v % m
    IN  IF 2 * r > m \/ (2 * r = m /\ q % 2 = 1) THEN q + 1 ELSE q
Format(x, d) ==
    IF x[1] = "number" THEN <<"str", d, RoundDec(x[2], d)>>
    ELSE IF x[1] = "KeyError" THEN x
    ELSE <<"TypeError">>

\* the condition of the record loop
IsComplete(rec) ==
    /\ Truthy(Get(rec, "LBXHGB", None))
    /\ Truthy(Get(rec, "LBXWBCSI", None))
    /\ Truthy(Get(rec, "LBXPLTSI", None))
    /\ Truthy(Get(rec, "LBXRBCSI", None))

\* tests = [...]: the nine f-strings, evaluated in order
BaseTests(rec) ==
    << [name |-> "Hemoglobin", result |-> Format(Index(rec, "LBXHGB"), 1)],
       [name |-> "White Blood Cell Count",
        result |-> Format(Index(rec, "LBXWBCSI"), 1)],
       [name |-> "Platelet Count",
        result |-> Format(Index(rec, "LBXPLTSI"), 0)],
       [name |-> "Red Blood Cell Count",
        result |-> Format(Index(rec, "LBXRBCSI"), 2)],
       [name |-> "Hematocrit",
        result |-> Format(Get(rec, "LBXHCT", JsonNum(4200000)), 1)],
       [name |-> "Mean Corpuscular Volume",
        result |-> Format(Get(rec, "LBXMCVSI", JsonNum(8800000)), 1)],
       [name |-> "Mean Corpuscular Hemoglobin",
        result |-> Format(Get(rec, "LBXMC", JsonNum(3000000)), 1)],
       [name |-> "MCHC",
        result |-> Format(Get(rec, "LBXMCHSI", JsonNum(3400000)), 1)],
       [name |-> "Red Cell Distribution Width",
        result |-> Format(Get(rec, "LBXRDW", JsonNum(1300000)), 1)] >>

\* the five rows added if sample_record.get("LBXNEPCT")
DifferentialTests(rec) ==
    << [name |-> "Neutrophils", result |-> Format(Index(rec, "LBXNEPCT"), 1)],
       [name |-> "Lymphocytes", result |-> Format(Index(rec, "LBXLYPCT"), 1)],
       [name |-> "Monocytes",
        result |-> Format(Get(rec, "LBXMOPCT", JsonNum(700000)), 1)],
       [name |-> "Eosinophils",
        result |-> Format(Get(rec, "LBXEOPCT", JsonNum(200000)), 1)],
       [name |-> "Basophils",
        result |-> Format(Get(rec, "LBXBAPCT", JsonNum(50000)), 1)] >>

\* the two rows added if sample_record.get("LBDNENO")
AbsoluteTests(rec) ==
    << [name |-> "Absolute Neutrophil Count",
        result |-> Format(Index(rec, "LBDNENO"), 1)],
       [name |-> "Absolute Lymphocyte Count",
        result |-> Format(Index(rec, "LBDLYMNO"), 1)] >>

\* the exception the first failing f-string of a list raises, "none" if none
Raised(rows) ==
    IF \A i \in 1..Len(rows) : rows[i].result[1] = "str"
    THEN "none"
    ELSE LET i == CHOOSE i \in 1..Len(rows) :
                      /\ rows[i].result[1] # "str"
                      /\ \A j \in 1..(i - 1) : rows[j].result[1] = "str"
         IN  rows[i].result[1]

InitPdf ==
    /\ ConvIdle
    /\ QuantIdle
    /\ \E n \in 0..MaxRecords : \E keys \in KeySets :
          \E s \in SeqsUpTo((1..n) \X keys, MaxNull) :
              data = ExportedArray(n, keys, {s[x] : x \in 1..Len(s)})
    /\ sample_record = <<>>
    /\ tests = <<>>
    /\ ppc = "select"
    /\ perror = "none"
    /\ pexit = "none"
    /\ pdfWritten = FALSE

\* for record in data: if <complete>: sample_record = record; break
SelectRecord ==
    /\ ppc = "select"
    /\ \E i \in 1..Len(data) :
         /\ IsComplete(data[i])
         /\ \A j \in 1..(i - 1) : ~IsComplete(data[j])
         /\ sample_record' = <<data[i]>>
    /\ ppc' = "tests"
    /\ UNCHANGED <<convVars, quantVars, data, tests, perror, pexit, pdfWritten>>

\* if not sample_record: print, exit(1)
NoCompleteRecord ==
    /\ ppc = "select"
    /\ \A i \in 1..Len(data) : ~IsComplete(data[i])
    /\ ppc' = "exited"
    /\ pexit' = "1"
    /\ UNCHANGED <<convVars, quantVars, data, sample_record, tests, perror,
                   pdfWritten>>

\* the page, the headings and tests = [...]
BuildTests ==
    /\ ppc = "tests"
    /\ Raised(BaseTests(sample_record[1])) = "none"
    /\ tests' = BaseTests(sample_record[1])
    /\ ppc' = "differential"
    /\ UNCHANGED <<convVars, quantVars, data, sample_record, perror, pexit,
                   pdfWritten>>

\* if sample_record.get("LBXNEPCT"): tests.extend([...])
AddDifferential ==
    /\ ppc = "differential"
    /\ Truthy(Get(sample_record[1], "LBXNEPCT", None))
    /\ Raised(DifferentialTests(sample_record[1])) = "none"
    /\ tests' = tests \o DifferentialTests(sample_record[1])
    /\ ppc' = "absolute"
    /\ UNCHANGED <<convVars, quantVars, data, sample_record, perror, pexit,
                   pdfWritten>>

SkipDifferential ==
    /\ ppc = "differential"
    /\ ~Truthy(Get(sample_record[1], "LBXNEPCT", None))
    /\ ppc' = "absolute"
    /\ UNCHANGED <<convVars, quantVars, data, sample_record, tests, perror,
                   pexit, pdfWritten>>

\* if sample_record.get("LBDNENO"): tests.extend([...])
AddAbsolute ==
    /\ ppc = "absolute"
    /\ Truthy(Get(sample_record[1], "LBDNENO", None))
    /\ Raised(AbsoluteTests(sample_record[1])) = "none"
    /\ tests' = tests \o AbsoluteTests(sample_record[1])
    /\ ppc' = "output"
    /\ UNCHANGED <<convVars, quantVars, data, sample_record, perror, pexit,
                   pdfWritten>>

SkipAbsolute ==
    /\ ppc = "absolute"
    /\ ~Truthy(Get(sample_record[1], "LBDNENO", None))
    /\ ppc' = "output"
    /\ UNCHANGED <<convVars, quantVars, data, sample_record, tests, perror,
                   pexit, pdfWritten>>

\* the list under construction at ppc, empty when its condition is false
Building ==
    IF ppc = "tests" THEN BaseTests(sample_record[1])
    ELSE IF ppc = "differential"
              /\ Truthy(Get(sample_record[1], "LBXNEPCT", None))
         THEN DifferentialTests(sample_record[1])
    ELSE IF ppc = "absolute" /\ Truthy(Get(sample_record[1], "LBDNENO", None))
         THEN AbsoluteTests(sample_record[1])
    ELSE <<>>

\* an f-string of the list being built raises: traceback, exit code 1
FormatRaises ==
    /\ ppc \in {"tests", "differential", "absolute"}
    /\ Raised(Building) # "none"
    /\ perror' = Raised(Building)
    /\ ppc' = "exited"
    /\ pexit' = "1"
    /\ UNCHANGED <<convVars, quantVars, data, sample_record, tests, pdfWritten>>

\* the loop drawing the rows, pdf.output(output_path), print
OutputPdf ==
    /\ ppc = "output"
    /\ pdfWritten' = TRUE
    /\ ppc' = "exited"
    /\ pexit' = "0"
    /\ UNCHANGED <<convVars, quantVars, data, sample_record, tests, perror>>

\* pdf.output cannot write ../public/sample_cbc_report.pdf
OutputFails ==
    /\ ppc = "output"
    /\ perror' = "OSError"
    /\ ppc' = "exited"
    /\ pexit' = "1"
    /\ UNCHANGED <<convVars, quantVars, data, sample_record, tests, pdfWritten>>

NextPdf ==
    \/ SelectRecord
    \/ NoCompleteRecord
    \/ BuildTests
    \/ AddDifferential
    \/ SkipDifferential
    \/ AddAbsolute
    \/ SkipAbsolute
    \/ FormatRaises
    \/ OutputPdf
    \/ OutputFails

SpecPdf == InitPdf /\ [][NextPdf]_vars

----------------------------------------------------------------------------
(* Property of create_fpdf2_sample.py, checked under SpecPdf               *)

C10_Required == {"LBXHGB", "LBXWBCSI", "LBXPLTSI", "LBXRBCSI"}
\* a field is present in a record when it is a key whose value is not null
C10_Present(rec, key) == key \in DOMAIN rec /\ rec[key] # JsonNull
C10_AllPresent(rec) == \A key \in C10_Required : C10_Present(rec, key)

\* C10: for every exported array the script ends in one of two ways: no
\* record has the four required fields present, the exit code is 1 and no
\* PDF is written; or the selected record is the first one in array order
\* with the four required fields present and the script reached the PDF
\* output step, no row having failed to format whatever optional fields of
\* that record are missing.
C10_PdfAlwaysRendered ==
    ppc = "exited" =>
        \/ /\ \A i \in 1..Len(data) : ~C10_AllPresent(data[i])
           /\ sample_record = <<>>
           /\ pexit = "1"
           /\ ~pdfWritten
        \/ /\ \E i \in 1..Len(data) :
                 /\ C10_AllPresent(data[i])
                 /\ \A j \in 1..(i - 1) : ~C10_AllPresent(data[j])
                 /\ sample_record = <<data[i]>>
           /\ perror \notin {"TypeError", "KeyError"}
           /\ pdfWritten \/ perror = "OSError"

====
